---- MODULE Spec2Model ----
(***************************************************************************)
(* The 3D model viewer of src/src/components/ModelViewer.tsx as a state    *)
(* machine: the Shell (ModelViewer), the model component it mounts         *)
(* (Model, Model2 or Model3), the loader's cache, the cloned scene graphs  *)
(* and the pending auto-revert timers.                                     *)
(*                                                                         *)
(* Granularity.  One action is one handler of the event loop together with *)
(* the commit React performs for the state updates the handler queued:     *)
(* the re-render (which clones the scene again), the cleanups of the       *)
(* effects whose dependencies changed, and the effects.  An update that an *)
(* effect itself queues (setGroup in Model2/Model3, onLoad -> setLoading)  *)
(* is committed by a later action.                                         *)
(***************************************************************************)
EXTENDS Integers, Sequences, FiniteSets, TLC

\* ------------------------------------------------------------------ bounds
MaxClones == 5        \* scene clones (renders of a model component) per run
MaxClicks == 2        \* part clicks (highlight materials created) per run
NumParts == 2         \* meshes of a scene graph

Parts == 1..NumParts
Clones == 1..MaxClones
Meshes == Clones \X Parts

\* ------------------------------------------------------------- the values
ModelPaths == {"/models/model1.gltf", "/models/model21.gltf", "/models/model3.gltf"}
NoModel == "null"
NoError == "null"

Kind(path) ==
    IF path = "/models/model1.gltf" THEN "Model"
    ELSE IF path = "/models/model21.gltf" THEN "Model2"
    ELSE "Model3"

NoMesh == <<0, 0>>
NoMaterial == [kind |-> "null", id |-> 0]
PartMaterial(p) == [kind |-> "part", id |-> p]
HighlightMaterial(n) == [kind |-> "highlight", id |-> n]
ShellHighlightMaterial(n) == [kind |-> "shellHighlight", id |-> n]
IsEmphasis(m) == m.kind \in {"highlight", "shellHighlight"}

NoSelection == [mesh |-> NoMesh, originalMaterial |-> NoMaterial]

\* What the loader can hand back for a target, and the message of what it throws.
Undefined == "undefined"
Outcomes == {"ok", "noscene", "error", "errorEmptyMessage", "errorNoMessage"}
MissingSceneMessage == "Cannot read properties of undefined (reading 'clone')"
ThrownMessage(status) ==
    CASE status = "error" -> "Failed to parse glTF"
      [] status = "errorEmptyMessage" -> ""
      [] status = "errorNoMessage" -> Undefined
      [] OTHER -> MissingSceneMessage

VARIABLES
    alive,              \* the ModelViewer is mounted
    selectedMesh,       \* Shell state
    currentModel,       \* Shell state
    modelError,         \* Shell state
    loading,            \* Shell state
    asset,              \* the loader's cache, per target
    view,               \* what stands under the ErrorBoundary
    highlightedMesh,    \* model component state
    originalMaterial,   \* model component state
    group,              \* Model2/Model3 state: the clone inside the rendered group, 0 for null
    pendingGroup,       \* the clone of the queued setGroup, 0 for none
    clonedScene,        \* the clone the latest render made, 0 for none
    mountBase,          \* the first clone of the mounted component instance, 0 for none
    nextClone,          \* clones made so far, plus one
    nextHighlight,      \* highlight materials made so far, plus one
    material,           \* the material of every mesh of every clone
    timers,             \* the pending auto-revert timers, oldest first
    last,               \* history: the handler that ran last and what it met
    box,                \* the bounding box handed to the normalization effect
    placed,             \* what the normalization effect made of it
    original,           \* the scene graph the loader caches, per target
    normalized,         \* per clone: how many times a normalization effect ran on it
    shownRaw,           \* history: the clones handed to the renderer before their effect
    fallbackShown       \* history: the Suspense fallback stood since the last selection

vars == <<alive, selectedMesh, currentModel, modelError, loading, asset, view,
          highlightedMesh, originalMaterial, group, pendingGroup, clonedScene,
          mountBase, nextClone, nextHighlight, material, timers, last, box, placed,
          original, normalized, shownRaw, fallbackShown>>

shellVars == <<selectedMesh, currentModel, modelError, loading>>
componentVars == <<highlightedMesh, originalMaterial, group, pendingGroup, clonedScene, mountBase>>
normVars == <<box, placed>>
cloneVars == <<original, normalized, shownRaw>>

NoEvent ==
    [op |-> "none", mesh |-> NoMesh, prev |-> NoMesh, prevBefore |-> NoMaterial,
     active |-> FALSE, superseded |-> FALSE, recorded |-> NoMaterial,
     captured |-> NoMaterial]

\* ---------------------------------------------------- the handlers' steps

\* Mutant: handleClick without its "Restore previous" step.
RestoreOmitted(mat, hm, om) == mat

\* handleClick: "if (highlightedMesh && originalMaterial) highlightedMesh.material = originalMaterial"
RestorePrevious(mat, hm, om) ==
    IF hm # NoMesh /\ om # NoMaterial THEN [mat EXCEPT ![hm] = om] ELSE mat

\* Mutant: the effect returns no cleanup.
CleanupOmitted(mat, hm, om) == mat

\* The cleanup of the effect on [highlightedMesh, originalMaterial]; hm and om are
\* the values of the render that set the effect up.
CleanupHighlight(mat, hm, om) ==
    IF hm # NoMesh /\ om # NoMaterial THEN [mat EXCEPT ![hm] = om] ELSE mat

\* The effect runs again, and its cleanup before it, when a dependency changed.
DepsChanged(hm, om, newHm, newOm) == <<hm, om>> # <<newHm, newOm>>

CommitCleanup(mat, hm, om, newHm, newOm) ==
    IF DepsChanged(hm, om, newHm, newOm) THEN CleanupHighlight(mat, hm, om) ELSE mat

\* In handleMeshClick and clearSelection: "if (selectedMesh) selectedMesh.mesh.material = ..."
ShellRestore(mat, sel) ==
    IF sel # NoSelection THEN [mat EXCEPT ![sel.mesh] = sel.originalMaterial] ELSE mat

handleMeshClick(mat, sel, mesh, orig, n) ==
    [material |-> [ShellRestore(mat, sel) EXCEPT ![mesh] = ShellHighlightMaterial(n)],
     selectedMesh |-> [mesh |-> mesh, originalMaterial |-> orig]]

\* Mutant: clearSelection without its guard, so that with nothing selected the
\* null selection's null material is written.
clearSelectionUnguarded(mat, sel) ==
    [material |-> [m \in DOMAIN mat |->
                      IF sel = NoSelection \/ m = sel.mesh THEN sel.originalMaterial
                      ELSE mat[m]],
     selectedMesh |-> NoSelection]

clearSelection(mat, sel) ==
    [material |-> ShellRestore(mat, sel), selectedMesh |-> NoSelection]

\* Mutant: setOriginalMaterial(mesh.material) placed after the highlight material
\* is assigned.
handleClickRecordsLate(mat, hm, om, sel, mesh, n) ==
    LET restored == RestorePrevious(mat, hm, om)
        shell == handleMeshClick(restored, sel, mesh, restored[mesh], n)
        final == [shell.material EXCEPT ![mesh] = HighlightMaterial(n)]
    IN  [material |-> final,
         highlightedMesh |-> mesh,
         originalMaterial |-> final[mesh],
         selectedMesh |-> shell.selectedMesh,
         timer |-> [mesh |-> mesh, highlightMaterial |-> HighlightMaterial(n),
                    originalMaterial |-> om]]

\* Mutant: the highlight material is assigned through the state variable, which
\* still holds the previously highlighted mesh.
handleClickHighlightsState(mat, hm, om, sel, mesh, n) ==
    LET restored == RestorePrevious(mat, hm, om)
        recorded == restored[mesh]
        shell == handleMeshClick(restored, sel, mesh, restored[mesh], n)
        final == IF hm # NoMesh
                 THEN [shell.material EXCEPT ![hm] = HighlightMaterial(n)]
                 ELSE shell.material
    IN  [material |-> final,
         highlightedMesh |-> mesh,
         originalMaterial |-> recorded,
         selectedMesh |-> shell.selectedMesh,
         timer |-> [mesh |-> mesh, highlightMaterial |-> HighlightMaterial(n),
                    originalMaterial |-> om]]

\* Model.handleClick on a mesh, with hm, om and sel the state of the render that
\* made the handler, and n the number of the highlight material it creates.
handleClick(mat, hm, om, sel, mesh, n) ==
    LET restored == RestorePrevious(mat, hm, om)
        recorded == restored[mesh]
        shell == handleMeshClick(restored, sel, mesh, restored[mesh], n)
        final == [shell.material EXCEPT ![mesh] = HighlightMaterial(n)]
    IN  [material |-> final,
         highlightedMesh |-> mesh,
         originalMaterial |-> recorded,
         selectedMesh |-> shell.selectedMesh,
         timer |-> [mesh |-> mesh, highlightMaterial |-> HighlightMaterial(n),
                    originalMaterial |-> om]]

\* Mutant: the timer restores without looking at the material.
TimerGuardAlways(mat, t) == TRUE

\* The timer's guard: "mesh.material === highlightMaterial"
TimerGuard(mat, t) == mat[t.mesh] = t.highlightMaterial

\* The timer's assignment: "mesh.material = originalMaterial", the value the
\* handler's render held.
TimerRestore(mat, t) == [mat EXCEPT ![t.mesh] = t.originalMaterial]

\* Mutant: "??" in place of "||", which lets an empty message through.
OrUnknownNullish(message) ==
    IF message = Undefined THEN "Unknown error" ELSE message

\* ErrorBoundary.componentDidCatch: error?.message || "Unknown error"
OrUnknown(message) ==
    IF message = Undefined \/ message = "" THEN "Unknown error" ELSE message

\* ---------------------------------------------------------- derived state
IsMounted == view \in {"mounting", "ready"}

\* The clone whose meshes the pointer can hit.
Displayed ==
    IF view # "ready" THEN 0
    ELSE IF Kind(currentModel) = "Model" THEN clonedScene
    ELSE group

OwnerMounted(t) == alive /\ view = "ready" /\ mountBase # 0 /\ t.mesh[1] >= mountBase

Supersede(ts) == [i \in 1..Len(ts) |-> [ts[i] EXCEPT !.superseded = TRUE]]

\* The material a mesh had before it was highlighted.
BeforeHighlight(mesh) ==
    IF \E i \in 1..Len(timers) : timers[i].highlightMaterial = material[mesh]
    THEN (CHOOSE t \in {timers[i] : i \in 1..Len(timers)} :
              t.highlightMaterial = material[mesh]).before
    ELSE material[mesh]

\* -------------------------------------------------- clones and the original
\* scene.clone() copies the transforms and keeps the references to the materials
\* (Mesh.copy), so PartMaterial(p) is one object for the original and for every
\* clone.  What the loader returned is recorded with its transform and with the
\* colour of those materials.
AssetScene == [transform |-> "asset", color |-> "asset"]

\* Model only: child.material.color.set('#e0e0e0') on every mesh of the new clone,
\* whose materials are the ones the original references.
DefaultColor(orig, m) ==
    IF Kind(m) = "Model" THEN [orig EXCEPT ![m].color = "#e0e0e0"] ELSE orig

\* The effect on [clonedScene] that centres, scales and rotates ran on clone c.
Normalize(norm, c) == [norm EXCEPT ![c] = @ + 1]

\* The commit hands clone c to the renderer through <primitive object=...>.
Present(raw, norm, c) == IF c # 0 /\ norm[c] = 0 THEN raw \cup {c} ELSE raw

\* The clone that stands in the renderer's scene: clonedScene in Model, the one
\* inside the group state in Model2 and Model3.
Presented ==
    IF ~IsMounted THEN 0
    ELSE IF Kind(currentModel) = "Model" THEN clonedScene
    ELSE group

\* Something still holds a mesh of clone c.
Referenced(c) ==
    \/ highlightedMesh[1] = c
    \/ selectedMesh.mesh[1] = c
    \/ \E i \in 1..Len(timers) : timers[i].mesh[1] = c
    \/ last.mesh[1] = c
    \/ last.prev[1] = c

\* ------------------------------------------------- the normalization effect
\* Numbers are rationals <<numerator, denominator>>; a zero denominator is what a
\* division by zero leaves (Infinity or NaN).  A box is the world-space bounding
\* box of the fresh clone: its minimum corner and its extent per axis, integers.
CoordBound == 1       \* the box's minimum corner lies in -CoordBound..CoordBound
MaxSize == 2          \* the box's extents lie in 0..MaxSize
targetSize == 8

Boxes ==
    [min : (-CoordBound..CoordBound) \X (-CoordBound..CoordBound) \X (-CoordBound..CoordBound),
     size : (0..MaxSize) \X (0..MaxSize) \X (0..MaxSize)]

Zero == <<0, 1>>
RAdd(a, b) == <<a[1] * b[2] + b[1] * a[2], a[2] * b[2]>>
RMul(a, b) == <<a[1] * b[1], a[2] * b[2]>>
RNeg(a) == <<0 - a[1], a[2]>>
REq(a, b) == a[2] # 0 /\ b[2] # 0 /\ a[1] * b[2] = b[1] * a[2]
RLeq(a, b) == a[1] * b[2] <= b[1] * a[2]
RMax(a, b) == IF RLeq(a, b) THEN b ELSE a
VZero == <<Zero, Zero, Zero>>
VAdd(u, v) == <<RAdd(u[1], v[1]), RAdd(u[2], v[2]), RAdd(u[3], v[3])>>
VScale(k, v) == <<RMul(k, v[1]), RMul(k, v[2]), RMul(k, v[3])>>
VNeg(v) == <<RNeg(v[1]), RNeg(v[2]), RNeg(v[3])>>

\* Box3.getSize, Box3.getCenter
GetSize(b) == <<<<b.size[1], 1>>, <<b.size[2], 1>>, <<b.size[3], 1>>>>
GetCenter(b) ==
    <<<<2 * b.min[1] + b.size[1], 2>>, <<2 * b.min[2] + b.size[2], 2>>,
      <<2 * b.min[3] + b.size[3], 2>>>>

\* Math.max(size.x, size.y, size.z)
MaxDim(b) ==
    LET m == IF b.size[1] >= b.size[2] THEN b.size[1] ELSE b.size[2]
    IN  IF m >= b.size[3] THEN m ELSE b.size[3]

\* Mutant: the division without its guard.
ScaleUnguarded(maxDim) == <<targetSize, maxDim>>

\* "maxDim > 0 ? targetSize / maxDim : 1"
Scale(maxDim) == IF maxDim > 0 THEN <<targetSize, maxDim>> ELSE <<1, 1>>

\* rotation.x = Math.PI / 2 takes (x, y, z) to (x, -z, y); an extent to (x, z, y).
RotateX(v) == <<v[1], RNeg(v[3]), v[2]>>
RotateExtent(v) == <<v[1], v[3], v[2]>>

\* An object with position, uniform scale and the rotation has the matrix
\* T * R * S.  inner is the position of a child below it, Zero for none.
WorldCentre(b, inner, scale, position) ==
    VAdd(RotateX(VScale(scale, VAdd(GetCenter(b), inner))), position)
WorldExtent(b, scale) == RotateExtent(VScale(scale, GetSize(b)))

\* Model: position, scale and rotation are all set on clonedScene itself, whose
\* position starts at the origin; then position.y += size.y * 0.25.
NormalizeModel(b) ==
    LET scale == Scale(MaxDim(b))
        heightOffset == <<Zero, <<b.size[2], 4>>, Zero>>
        position == VAdd(VNeg(GetCenter(b)), heightOffset)
    IN  [kind |-> "Model", scale |-> scale,
         centre |-> WorldCentre(b, VZero, scale, position),
         extent |-> WorldExtent(b, scale)]

\* Model2, Model3: clonedScene.position.sub(center) inside centerGroup, which
\* carries the scale and the rotation and stays at the origin.
NormalizeInGroup(kind, b) ==
    LET scale == Scale(MaxDim(b))
    IN  [kind |-> kind, scale |-> scale,
         centre |-> WorldCentre(b, VNeg(GetCenter(b)), scale, VZero),
         extent |-> WorldExtent(b, scale)]

NotPlaced == [kind |-> "none", scale |-> Zero, centre |-> VZero, extent |-> VZero]

\* ------------------------------------------------------------------- Init
InitViewer ==
    /\ alive = TRUE
    /\ selectedMesh = NoSelection
    /\ currentModel = NoModel
    /\ modelError = NoError
    /\ loading = FALSE
    /\ asset = [m \in ModelPaths |-> "unloaded"]
    /\ view = "none"
    /\ highlightedMesh = NoMesh
    /\ originalMaterial = NoMaterial
    /\ group = 0
    /\ pendingGroup = 0
    /\ clonedScene = 0
    /\ mountBase = 0
    /\ nextClone = 1
    /\ nextHighlight = 1
    /\ material = [m \in Meshes |-> PartMaterial(m[2])]
    /\ timers = <<>>
    /\ last = NoEvent
    /\ original = [m \in ModelPaths |-> AssetScene]
    /\ normalized = [c \in Clones |-> 0]
    /\ shownRaw = {}
    /\ fallbackShown = FALSE

Init ==
    /\ InitViewer
    /\ box = [min |-> <<0, 0, 0>>, size |-> <<0, 0, 0>>]
    /\ placed = NotPlaced

\* ---------------------------------------------------------------- actions

\* A render of the mounted component and its commit: the body clones the scene,
\* the commit hands the <primitive> its object, then the effects on [clonedScene]
\* run on the new clone; in Model2 and Model3 that effect queues setGroup.
Render(applyGroup) ==
    /\ nextClone <= MaxClones
    /\ clonedScene' = nextClone
    /\ nextClone' = nextClone + 1
    /\ IF Kind(currentModel) = "Model"
       THEN /\ group' = 0 /\ pendingGroup' = 0
            /\ shownRaw' = Present(shownRaw, normalized, nextClone)
       ELSE /\ group' = IF applyGroup /\ pendingGroup # 0 THEN pendingGroup ELSE group
            /\ pendingGroup' = nextClone
            /\ shownRaw' = Present(shownRaw, normalized, group')
    /\ normalized' = Normalize(normalized, nextClone)
    /\ original' = DefaultColor(original, currentModel)

Unmounted ==
    /\ highlightedMesh' = NoMesh
    /\ originalMaterial' = NoMaterial
    /\ group' = 0
    /\ pendingGroup' = 0
    /\ clonedScene' = 0
    /\ mountBase' = 0

\* A click on part p of the displayed clone: handleClick, then the commit.
ClickPart(p) ==
    /\ alive
    /\ Displayed # 0
    /\ nextHighlight <= MaxClicks
    /\ LET mesh == <<Displayed, p>>
           r == handleClick(material, highlightedMesh, originalMaterial,
                            selectedMesh, mesh, nextHighlight)
           prev == IF highlightedMesh # NoMesh /\ IsEmphasis(material[highlightedMesh])
                   THEN highlightedMesh ELSE NoMesh
       IN  /\ material' = CommitCleanup(r.material, highlightedMesh, originalMaterial,
                                        r.highlightedMesh, r.originalMaterial)
           /\ highlightedMesh' = r.highlightedMesh
           /\ originalMaterial' = r.originalMaterial
           /\ selectedMesh' = r.selectedMesh
           /\ timers' = Append(Supersede(timers),
                               [mesh |-> r.timer.mesh,
                                highlightMaterial |-> r.timer.highlightMaterial,
                                originalMaterial |-> r.timer.originalMaterial,
                                before |-> BeforeHighlight(mesh),
                                superseded |-> FALSE])
           /\ last' = [NoEvent EXCEPT !.op = "click", !.mesh = mesh, !.prev = prev,
                         !.prevBefore = IF prev = NoMesh THEN NoMaterial
                                        ELSE BeforeHighlight(prev)]
    /\ nextHighlight' = nextHighlight + 1
    /\ Render(FALSE)
    /\ UNCHANGED <<alive, currentModel, modelError, loading, asset, view, mountBase>>
    /\ UNCHANGED <<normVars, fallbackShown>>

\* A click on the canvas that hits no mesh.  Neither the Canvas nor a <primitive>
\* has an onPointerMissed, and onClick is not called for a miss: no handler runs.
PointerMissed ==
    /\ alive
    /\ view = "ready"
    /\ last' = [NoEvent EXCEPT !.op = "missed", !.prev = highlightedMesh]
    /\ UNCHANGED <<alive, shellVars, asset, view, componentVars, nextClone,
                   nextHighlight, material, timers>>
    /\ UNCHANGED <<normVars, cloneVars, fallbackShown>>

\* The oldest timer fires.
TimerFire ==
    /\ timers # <<>>
    /\ LET t == Head(timers)
           fires == TimerGuard(material, t)
           clears == fires /\ OwnerMounted(t)
                      /\ <<highlightedMesh, originalMaterial>> # <<NoMesh, NoMaterial>>
       IN  /\ timers' = Tail(timers)
           /\ last' = [NoEvent EXCEPT !.op = "timer", !.mesh = t.mesh,
                         !.active = (fires /\ highlightedMesh = t.mesh),
                         !.superseded = t.superseded,
                         !.recorded = originalMaterial,
                         !.captured = t.originalMaterial]
           /\ IF clears
              THEN /\ material' = CleanupHighlight(TimerRestore(material, t),
                                                   highlightedMesh, originalMaterial)
                   /\ highlightedMesh' = NoMesh
                   /\ originalMaterial' = NoMaterial
                   /\ Render(TRUE)
                   /\ UNCHANGED mountBase
              ELSE /\ material' = IF fires THEN TimerRestore(material, t) ELSE material
                   /\ UNCHANGED <<componentVars, nextClone, cloneVars>>
    /\ UNCHANGED <<alive, shellVars, asset, view, nextHighlight>>
    /\ UNCHANGED <<normVars, fallbackShown>>

\* Mutant: handleModelError without setLoading(false).
handleModelErrorKeepsLoading(message) ==
    /\ modelError' = OrUnknown(message)
    /\ loading' = loading
    /\ currentModel' = NoModel
    /\ view' = "none"
    /\ Unmounted
    /\ UNCHANGED <<selectedMesh, nextClone, cloneVars>>

\* ErrorBoundary.componentDidCatch calls handleModelError; the Shell then renders
\* no boundary and no model component.
handleModelError(message) ==
    /\ modelError' = OrUnknown(message)
    /\ loading' = FALSE
    /\ currentModel' = NoModel
    /\ view' = "none"
    /\ Unmounted
    /\ UNCHANGED <<selectedMesh, nextClone, cloneVars>>

\* The first render of the component for target m, with the loader answering st,
\* and its commit: Model returns the <primitive> of its clone, Model2 and Model3
\* return null while group is null.
Attempt(m, st) ==
    IF st = "ok"
    THEN /\ nextClone <= MaxClones
         /\ clonedScene' = nextClone
         /\ mountBase' = nextClone
         /\ nextClone' = nextClone + 1
         /\ view' = "mounting"
         /\ shownRaw' = IF Kind(m) = "Model"
                        THEN Present(shownRaw, normalized, nextClone)
                        ELSE shownRaw
         /\ UNCHANGED <<shellVars, highlightedMesh, originalMaterial, group, pendingGroup,
                        original, normalized>>
    ELSE IF st = "noscene" /\ Kind(m) = "Model2"
    THEN /\ view' = "marker"
         /\ UNCHANGED <<shellVars, componentVars, nextClone, cloneVars>>
    ELSE handleModelError(ThrownMessage(st))

\* A model-picker button: handleModelSelect, then the commit.  With the key of the
\* ErrorBoundary unchanged the mounted component stays and renders again.
handleModelSelect(m) ==
    /\ alive
    /\ ~loading
    /\ LET c == clearSelection(material, selectedMesh)
           prev == IF selectedMesh # NoSelection THEN selectedMesh.mesh ELSE highlightedMesh
       IN  /\ selectedMesh' = c.selectedMesh
           /\ last' = [NoEvent EXCEPT !.op = "select", !.prev = prev,
                         !.prevBefore = IF prev = NoMesh THEN NoMaterial
                                        ELSE BeforeHighlight(prev)]
           /\ IF currentModel = m /\ IsMounted
              THEN /\ material' = c.material
                   /\ Render(FALSE)
                   /\ UNCHANGED <<highlightedMesh, originalMaterial, mountBase, view>>
              ELSE /\ nextClone < MaxClones
                   /\ material' = IF IsMounted
                                  THEN CleanupHighlight(c.material, highlightedMesh,
                                                        originalMaterial)
                                  ELSE c.material
                   /\ Unmounted
                   /\ view' = "rendering"
                   /\ UNCHANGED <<nextClone, cloneVars>>
    /\ modelError' = NoError
    /\ loading' = TRUE
    /\ currentModel' = m
    /\ timers' = Supersede(timers)
    /\ fallbackShown' = FALSE
    /\ UNCHANGED <<alive, asset, nextHighlight>>
    /\ UNCHANGED normVars

\* The new component renders for the first time: useGLTF suspends on a target the
\* cache does not hold, which puts the Suspense fallback up, and answers from the
\* cache otherwise.
RenderModel ==
    /\ alive
    /\ view = "rendering"
    /\ IF asset[currentModel] = "unloaded"
       THEN /\ asset' = [asset EXCEPT ![currentModel] = "pending"]
            /\ view' = "suspended"
            /\ fallbackShown' = TRUE
            /\ UNCHANGED <<shellVars, componentVars, nextClone, cloneVars>>
       ELSE /\ Attempt(currentModel, asset[currentModel])
            /\ UNCHANGED <<asset, fallbackShown>>
    /\ last' = [NoEvent EXCEPT !.op = "render"]
    /\ UNCHANGED <<alive, nextHighlight, material, timers>>
    /\ UNCHANGED normVars

\* The loader settles and React renders the suspended component again.
LoadResolve(outcome) ==
    /\ alive
    /\ view = "suspended"
    /\ asset' = [asset EXCEPT ![currentModel] = outcome]
    /\ Attempt(currentModel, outcome)
    /\ last' = [NoEvent EXCEPT !.op = "resolve"]
    /\ UNCHANGED <<alive, nextHighlight, material, timers>>
    /\ UNCHANGED <<normVars, fallbackShown>>

\* The effects of the first commit: the effects on [clonedScene], with setGroup in
\* Model2 and Model3, and onLoad, which is handleModelLoad; then the commit of
\* what they queued, a render like any other.
handleModelLoad ==
    /\ alive
    /\ view = "mounting"
    /\ nextClone <= MaxClones
    /\ loading' = FALSE
    /\ modelError' = NoError
    /\ view' = "ready"
    /\ clonedScene' = nextClone
    /\ nextClone' = nextClone + 1
    /\ IF Kind(currentModel) = "Model"
       THEN /\ group' = 0 /\ pendingGroup' = 0
            /\ shownRaw' = Present(shownRaw, normalized, nextClone)
       ELSE /\ group' = clonedScene /\ pendingGroup' = nextClone
            /\ shownRaw' = shownRaw
    /\ normalized' = Normalize(Normalize(normalized, clonedScene), nextClone)
    /\ original' = DefaultColor(original, currentModel)
    /\ last' = [NoEvent EXCEPT !.op = "load"]
    /\ UNCHANGED <<alive, selectedMesh, currentModel, asset, highlightedMesh,
                   originalMaterial, mountBase, nextHighlight, material, timers>>
    /\ UNCHANGED <<normVars, fallbackShown>>

\* Model2, Model3: the commit of the setGroup the latest effect queued.  The group
\* it replaces is dropped by the renderer; when nothing else holds a mesh of that
\* clone it is garbage, and the clone this render makes takes over its number.
Rerender ==
    /\ alive
    /\ view = "ready"
    /\ pendingGroup # 0
    /\ LET c == IF group # 0 /\ ~Referenced(group) THEN group ELSE nextClone
       IN  /\ c <= MaxClones
           /\ clonedScene' = c
           /\ nextClone' = IF c = nextClone THEN nextClone + 1 ELSE nextClone
           /\ group' = pendingGroup
           /\ pendingGroup' = c
           /\ material' = [m \in Meshes |-> IF m[1] = c THEN PartMaterial(m[2])
                                             ELSE material[m]]
           /\ normalized' = [normalized EXCEPT ![c] = 1]
           /\ shownRaw' = Present(shownRaw, normalized, pendingGroup)
    /\ UNCHANGED <<alive, shellVars, asset, view, highlightedMesh, originalMaterial,
                   mountBase, nextHighlight, timers, last, original>>
    /\ UNCHANGED <<normVars, fallbackShown>>

\* The ModelViewer is unmounted: the cleanups of the model component run.
UnmountViewer ==
    /\ alive
    /\ alive' = FALSE
    /\ material' = IF IsMounted
                   THEN CleanupHighlight(material, highlightedMesh, originalMaterial)
                   ELSE material
    /\ Unmounted
    /\ view' = "none"
    /\ timers' = Supersede(timers)
    /\ last' = [NoEvent EXCEPT !.op = "unmount"]
    /\ UNCHANGED <<shellVars, asset, nextClone, nextHighlight>>
    /\ UNCHANGED <<normVars, cloneVars, fallbackShown>>

Next ==
    \/ \E p \in Parts : ClickPart(p)
    \/ PointerMissed
    \/ TimerFire
    \/ \E m \in ModelPaths : handleModelSelect(m)
    \/ RenderModel
    \/ \E o \in Outcomes : LoadResolve(o)
    \/ handleModelLoad
    \/ Rerender
    \/ UnmountViewer

Spec == Init /\ [][Next]_vars

FairSpec ==
    /\ Spec
    /\ WF_vars(TimerFire)
    /\ WF_vars(RenderModel)
    /\ WF_vars(\E o \in Outcomes : LoadResolve(o))
    /\ WF_vars(handleModelLoad)
    /\ WF_vars(Rerender)

\* ------------------------------------- the normalization effect on its own
NormInit ==
    /\ InitViewer
    /\ box \in Boxes
    /\ placed = NotPlaced

EffectModel ==
    /\ placed = NotPlaced
    /\ placed' = NormalizeModel(box)
    /\ UNCHANGED <<alive, shellVars, asset, view, componentVars, nextClone,
                   nextHighlight, material, timers, last, box, cloneVars, fallbackShown>>

EffectModel2 ==
    /\ placed = NotPlaced
    /\ placed' = NormalizeInGroup("Model2", box)
    /\ UNCHANGED <<alive, shellVars, asset, view, componentVars, nextClone,
                   nextHighlight, material, timers, last, box, cloneVars, fallbackShown>>

EffectModel3 ==
    /\ placed = NotPlaced
    /\ placed' = NormalizeInGroup("Model3", box)
    /\ UNCHANGED <<alive, shellVars, asset, view, componentVars, nextClone,
                   nextHighlight, material, timers, last, box, cloneVars, fallbackShown>>

NormNext == EffectModel \/ EffectModel2 \/ EffectModel3

NormSpec == NormInit /\ [][NormNext]_vars

\* ------------------------------------------------------------------ claims

\* C1: between handlers, at most one part of any one cloned scene graph carries
\* an emphasis material.
C1_AtMostOneEmphasis ==
    \A c \in Clones : Cardinality({p \in Parts : IsEmphasis(material[<<c, p>>])}) <= 1

\* A second part of the same clone was clicked while the first was highlighted.
C1_Witness ==
    /\ last.op = "click"
    /\ last.prev # NoMesh
    /\ last.prev # last.mesh
    /\ last.prev[1] = last.mesh[1]
    /\ IsEmphasis(material[last.mesh])

\* C2: a click on part B while another part A is the active highlight leaves A
\* with the material it had before it was highlighted and B emphasized, and what
\* is recorded as B's original is the material B had, not an emphasis material.
C2_RestoreThenHighlight ==
    [][(/\ nextHighlight' = nextHighlight + 1
        /\ highlightedMesh # NoMesh
        /\ IsEmphasis(material[highlightedMesh])
        /\ highlightedMesh' # highlightedMesh)
       => (/\ material'[highlightedMesh] = BeforeHighlight(highlightedMesh)
           /\ material'[highlightedMesh'] = HighlightMaterial(nextHighlight)
           /\ originalMaterial' = material[highlightedMesh']
           /\ ~IsEmphasis(originalMaterial'))]_vars

C2_Witness ==
    /\ last.op = "click"
    /\ last.prev # NoMesh
    /\ last.prev # last.mesh
    /\ last.prev[2] # last.mesh[2]
    /\ material[last.prev] = last.prevBefore
    /\ highlightedMesh = last.mesh
    /\ material[last.mesh] = HighlightMaterial(nextHighlight - 1)

\* C3: a timer that fires while its part is still the active highlight and still
\* carries the highlight material of its click leaves the part with the original
\* recorded for it by that click, and the component Idle.
C3_TimerClears ==
    [][(/\ Len(timers') < Len(timers)
        /\ highlightedMesh = Head(timers).mesh
        /\ material[Head(timers).mesh] = Head(timers).highlightMaterial)
       => (/\ material'[Head(timers).mesh] = originalMaterial
           /\ highlightedMesh' = NoMesh
           /\ originalMaterial' = NoMaterial)]_vars

\* Such a timer has fired, of a click that followed a highlight of another part:
\* the value its closure held is that other part's material.
C3_Witness ==
    /\ last.op = "timer"
    /\ last.active
    /\ last.captured # NoMaterial
    /\ last.captured # last.recorded
    /\ material[last.mesh] = last.recorded
    /\ highlightedMesh = NoMesh

\* C4: a timer that fires after a later click, a clearSelection, a swap of the
\* model or an unmount changes no material and no highlight state.
C4_StaleTimerNoOp ==
    [][(Len(timers') < Len(timers) /\ Head(timers).superseded)
       => UNCHANGED <<material, highlightedMesh, originalMaterial, selectedMesh>>]_vars

C4_Witness ==
    /\ last.op = "timer"
    /\ last.superseded

\* C5: handleModelSelect, also for the target already loaded, leaves the part that
\* was highlighted with its original material, the Shell's and the component's
\* highlight records empty, no error, loading set and the target current.
C5_SelectClearsAll ==
    [][\A m \in ModelPaths :
          handleModelSelect(m)
          => (/\ selectedMesh' = NoSelection
              /\ highlightedMesh' = NoMesh
              /\ originalMaterial' = NoMaterial
              /\ modelError' = NoError
              /\ loading'
              /\ currentModel' = m
              /\ (selectedMesh # NoSelection
                  => material'[selectedMesh.mesh] = BeforeHighlight(selectedMesh.mesh)))]_vars

\* C6: a failure the error boundary catches leaves currentModel null, loading
\* false and modelError the thrown message, or "Unknown error" for a missing or
\* empty one; never an empty string.
C6_FailureLeavesError ==
    [][(modelError = NoError /\ modelError' # NoError)
       => (/\ currentModel' = NoModel
           /\ ~loading'
           /\ modelError' # ""
           /\ modelError' # Undefined
           /\ LET thrown == ThrownMessage(asset'[currentModel])
              IN  modelError' = IF thrown \in {"", Undefined}
                                THEN "Unknown error" ELSE thrown)]_vars

\* A failure with a missing or empty message has been caught.
C6_Witness ==
    /\ modelError = "Unknown error"
    /\ currentModel = NoModel
    /\ ~loading
    /\ \E m \in ModelPaths : asset[m] \in {"errorEmptyMessage", "errorNoMessage"}

\* C7: once a load error has occurred (the error panel or the missing-scene
\* marker stands), loading eventually is false and the selection cleared, for as
\* long as the viewer stays mounted.
C7_ErrorClearsLoading ==
    (alive /\ (view = "marker" \/ modelError # NoError))
        ~> (~alive \/ (~loading /\ currentModel = NoModel))

\* C8: a component that renders an asset without a scene root shows the marker
\* and raises no error, in Model, Model2 and Model3 alike.
C8_MissingSceneMarker ==
    [][\A m \in ModelPaths :
          (/\ currentModel = m
           /\ view \in {"rendering", "suspended"}
           /\ view' \notin {"rendering", "suspended"}
           /\ asset'[m] = "noscene")
          => (view' = "marker" /\ modelError' = NoError)]_vars

\* C9: for a box of positive largest extent the normalized object has its
\* world-space centre at the origin and its largest world-space extent targetSize.
C9_CentredAndSized ==
    (placed # NotPlaced /\ MaxDim(box) > 0)
    => (/\ \A i \in 1..3 : REq(placed.centre[i], Zero)
        /\ REq(RMax(placed.extent[1], RMax(placed.extent[2], placed.extent[3])),
               <<targetSize, 1>>))

\* C10: for a box of zero extent on all axes the effect divides by nothing and
\* the scale is exactly 1.
C10_DegenerateScaleOne ==
    (placed # NotPlaced /\ box.size = <<0, 0, 0>>)
    => (/\ placed.scale = <<1, 1>>
        /\ \A i \in 1..3 : placed.centre[i][2] # 0 /\ placed.extent[i][2] # 0)

\* The effect has run on a zero-extent box away from the origin.
C10_Witness ==
    /\ placed # NotPlaced
    /\ box.size = <<0, 0, 0>>
    /\ box.min # <<0, 0, 0>>
    /\ placed.scale = <<1, 1>>

\* C11: the scene graph the loader caches is never modified: whatever was loaded,
\* coloured, normalized, clicked or reverted, its transform and the colour of
\* the materials its parts reference are the asset's.
C11_OriginalUntouched ==
    \A m \in ModelPaths : original[m] = AssetScene

\* C12: every clone is normalized exactly once and before the renderer first
\* gets it: no clone was handed over before its effect ran, none was normalized
\* twice, and the clone that stands in the scene has been normalized once.
C12_NormalizedOnceBeforeShown ==
    /\ shownRaw = {}
    /\ \A c \in Clones : normalized[c] <= 1
    /\ (Presented # 0 => normalized[Presented] = 1)

\* C13: what the model component and the Shell record as a part's original is
\* never an emphasis material, also when the part clicked is the one already
\* highlighted: it is the material the part had before any highlight.
C13_OriginalNeverEmphasis ==
    /\ ~IsEmphasis(originalMaterial)
    /\ ~IsEmphasis(selectedMesh.originalMaterial)
    /\ (highlightedMesh # NoMesh => originalMaterial = PartMaterial(highlightedMesh[2]))
    /\ (selectedMesh # NoSelection
        => selectedMesh.originalMaterial = PartMaterial(selectedMesh.mesh[2]))

\* The highlighted mesh itself was clicked again while it carried the emphasis.
C13_Witness ==
    /\ last.op = "click"
    /\ last.prev = last.mesh
    /\ highlightedMesh = last.mesh
    /\ selectedMesh.mesh = last.mesh
    /\ IsEmphasis(material[last.mesh])
    /\ originalMaterial = PartMaterial(last.mesh[2])

\* C14: a click that hits no part while a part is highlighted clears the
\* highlight: the part has its original material again and the Shell's
\* selectedMesh is null.
C14_EmptyClickClears ==
    [][(/\ last'.op = "missed"
        /\ last.op # "missed"
        /\ highlightedMesh # NoMesh
        /\ IsEmphasis(material[highlightedMesh]))
       => (/\ material'[highlightedMesh] = BeforeHighlight(highlightedMesh)
           /\ selectedMesh' = NoSelection)]_vars

\* C15: a load never ends, in handleModelLoad or in handleModelError, without the
\* Suspense fallback having stood at some state since its handleModelSelect.
C15_FallbackAlwaysShown ==
    [][(loading /\ ~loading') => fallbackShown]_vars

\* C16: whenever an error message is displayed, no model component is mounted,
\* loading is false, hence the model-picker buttons are enabled, and the viewer
\* shows nothing under the boundary.
C16_ErrorLeavesPickerEnabled ==
    modelError # NoError
    => (/\ currentModel = NoModel
        /\ ~loading
        /\ view = "none"
        /\ ~IsMounted
        /\ Presented = 0)

\* An error is displayed after a model had been loaded and clicked before.
C16_Witness ==
    /\ alive
    /\ modelError = "Failed to parse glTF"
    /\ currentModel = NoModel
    /\ ~loading
    /\ nextHighlight > 1
    /\ \E m \in ModelPaths : asset[m] = "ok"

\* C17: clearSelection with nothing selected is a no-op: it yields the materials
\* and the null selection it was given, and the handleModelSelect step that calls
\* it then leaves every material and selectedMesh as they were.
C17_ClearNothingNoOp ==
    [][(selectedMesh = NoSelection)
       => (/\ clearSelection(material, selectedMesh)
                = [material |-> material, selectedMesh |-> selectedMesh]
           /\ \A m \in ModelPaths :
                 handleModelSelect(m)
                 => (material' = material /\ selectedMesh' = selectedMesh))]_vars

\* handleModelSelect ran with nothing selected, after a part had been clicked and
\* its selection cleared earlier.
C17_Witness ==
    /\ last.op = "select"
    /\ last.prev = NoMesh
    /\ selectedMesh = NoSelection
    /\ nextHighlight > 1
    /\ loading

\* C18: once a target whose asset decodes is selected, be it the one already
\* loaded and mounted, loading eventually is false again, so that the picker
\* buttons are enabled, for as long as the viewer stays mounted.
C18_LoadingEnds ==
    (alive /\ loading /\ currentModel # NoModel /\ asset[currentModel] = "ok")
        ~> (~alive \/ ~loading)

\* C19: while one component instance stays mounted the clone that stands in the
\* renderer's scene is never replaced by another, and the highlighted part is a
\* part of that clone.
C19_InstanceStable ==
    [][(IsMounted /\ IsMounted' /\ mountBase' = mountBase)
       => (/\ (Presented = 0 \/ Presented' = Presented)
           /\ (highlightedMesh' # NoMesh => highlightedMesh'[1] = Presented'))]_vars

\* C20: after a load succeeded, with no user input and no timer pending, the
\* component comes to rest: eventually no state update is queued any more, or
\* something other than its own re-renders happens.
C20_ComesToRest ==
    (alive /\ last.op = "load" /\ timers = <<>>)
        ~> (last.op # "load" \/ pendingGroup = 0)

\* C21: between handlers of a mounted viewer, a non-null selectedMesh of the Shell
\* names a part that carries an emphasis material and is the part the model
\* component records as highlighted; after a timer reverted the active highlight
\* both records are empty.
C21_RecordsAgree ==
    alive
    => (/\ (selectedMesh # NoSelection
            => (/\ IsEmphasis(material[selectedMesh.mesh])
                /\ highlightedMesh = selectedMesh.mesh))
        /\ ((last.op = "timer" /\ last.active)
            => (highlightedMesh = NoMesh /\ selectedMesh = NoSelection)))

\* C22: Model and Model3 normalize alike: for one and the same bounding box the
\* effect of either gives the object the same uniform scale, the same rotated
\* world-space extent and the same world-space position as the other's.
C22_ModelEqualsModel3 ==
    (placed # NotPlaced /\ placed.kind \in {"Model", "Model3"})
    => LET other == IF placed.kind = "Model" THEN NormalizeInGroup("Model3", box)
                    ELSE NormalizeModel(box)
       IN  /\ REq(placed.scale, other.scale)
           /\ \A i \in 1..3 : REq(placed.extent[i], other.extent[i])
           /\ \A i \in 1..3 : REq(placed.centre[i], other.centre[i])

====
